---- MODULE Spec2Model ----
(***************************************************************************)
(* A model of awsprofile/cli.py (AWSProfileManager): the two INI registry  *)
(* files ~/.aws/credentials and ~/.aws/config, their backup copies, the    *)
(* AWS_PROFILE environment override, and the operations that read and      *)
(* change them.  Text typed at a prompt is a sequence of one-character     *)
(* strings, so that str.strip() and str.lower() are computed, not assumed. *)
(* A registry file is a sequence of lines; configparser's reader and       *)
(* writer are modelled line by line.  list_profiles and interactive_mode   *)
(* are modelled prompt by prompt, around the same operations.              *)
(***************************************************************************)
EXTENDS Integers, Sequences, FiniteSets, TLC

VARIABLES
  credentials,    \* the file at self.credentials_path
  config,         \* the file at self.config_path
  backup_creds,   \* the file credentials.credentials.backup
  backup_config,  \* the file config.config.backup
  AWS_PROFILE,    \* os.environ['AWS_PROFILE'], or Unset
  fault,          \* the file operation that fails with OSError in this run, if any
  last,           \* the last call: operation, arguments, result, output
  pre,            \* the files and the override as they were before the last call
  nops,           \* number of calls made so far
  SHELL,          \* os.environ['SHELL'], its last path component
  shell_config,   \* the shell's startup file (~/.zshrc or ~/.bashrc) and its backup
  exit_code,      \* the exit status of the process, <<>> while none has ended
  proc,           \* invocations of the tool running at the same time, step by step
  AWS_SHARED_CREDENTIALS_FILE,  \* os.environ['AWS_SHARED_CREDENTIALS_FILE'], or Unset
  temp_creds,     \* the file at temp_creds_path of the last credential test
  session         \* interactive_mode: where it stands, its profiles list, the menu shown

vars == <<credentials, config, backup_creds, backup_config, AWS_PROFILE,
          fault, last, pre, nops, SHELL, shell_config, exit_code, proc,
          AWS_SHARED_CREDENTIALS_FILE, temp_creds, session>>

----------------------------------------------------------------------------
(* Bounds of the model *)

\* number of top-level calls in one run
MaxOps == 2

\* length of the principal strings given to extract_username
MaxLen == 4

\* number of answers read at "Select option: " in one interactive session
MaxRounds == 1

----------------------------------------------------------------------------
(* Text *)

Unset == "<unset>"
NotSet == "<not set>"

\* one character of str.lower()
LowerChar(c) ==
  CASE c = "Y" -> "y"
    [] c = "E" -> "e"
    [] c = "S" -> "s"
    [] c = "N" -> "n"
    [] c = "O" -> "o"
    [] OTHER -> c

\* str.lower()
Lower(s) == [i \in 1..Len(s) |-> LowerChar(s[i])]

IsSpace(c) == c = " "

RECURSIVE LStrip(_)
LStrip(s) == IF s # <<>> /\ IsSpace(Head(s)) THEN LStrip(Tail(s)) ELSE s

RECURSIVE RStrip(_)
RStrip(s) ==
  IF s # <<>> /\ IsSpace(s[Len(s)]) THEN RStrip(SubSeq(s, 1, Len(s) - 1)) ELSE s

\* str.strip()
Strip(s) == RStrip(LStrip(s))

\* raised at a prompt instead of a line of text
KeyboardInterrupt == <<"^C">>
EOFError == <<"^D">>
IsText(a) == a # KeyboardInterrupt /\ a # EOFError

----------------------------------------------------------------------------
(* Registry files and configparser *)

Absent == [exists |-> FALSE, lines |-> <<>>]
File(ls) == [exists |-> TRUE, lines |-> ls]

Hdr(n) == [t |-> "hdr", n |-> n, k |-> "", v |-> <<>>]
KV(k, v) == [t |-> "kv", n |-> "", k |-> k, v |-> v]
Cmt == [t |-> "cmt", n |-> "", k |-> "", v |-> <<>>]
Blank == [t |-> "blank", n |-> "", k |-> "", v |-> <<>>]
Bad == [t |-> "bad", n |-> "", k |-> "", v |-> <<>>]

\* configparser.DEFAULTSECT
DEFAULTSECT == "DEFAULT"

\* RawConfigParser.optionxform: option names are lower-cased
optionxform(k) ==
  CASE k = "Region" -> "region"
    [] k = "Output" -> "output"
    [] OTHER -> k

\* a fresh configparser.ConfigParser()
ConfigParser == [err |-> FALSE, cur |-> "none", defs |-> <<>>, secs |-> <<>>]

\* RawConfigParser.has_section
has_section(cfg, n) == \E i \in 1..Len(cfg.secs) : cfg.secs[i].n = n

HasKey(kvs, k) == \E i \in 1..Len(kvs) : kvs[i][1] = k

\* RawConfigParser.has_option(DEFAULTSECT, k)
has_default_option(cfg, k) == HasKey(cfg.defs, optionxform(k))

\* RawConfigParser.sections
sections(cfg) == [i \in 1..Len(cfg.secs) |-> cfg.secs[i].n]

\* one line of RawConfigParser._read (strict mode)
ReadLine(st, ln) ==
  IF st.err THEN st
  ELSE CASE ln.t \in {"cmt", "blank"} -> st
    [] ln.t = "hdr" ->
         IF ln.n = DEFAULTSECT THEN [st EXCEPT !.cur = "defaults"]
         ELSE IF has_section(st, ln.n) THEN [st EXCEPT !.err = TRUE]
         ELSE [st EXCEPT !.cur = "last",
                         !.secs = Append(@, [n |-> ln.n, kv |-> <<>>])]
    [] ln.t = "kv" ->
         LET k == optionxform(ln.k) IN
         CASE st.cur = "none" -> [st EXCEPT !.err = TRUE]
           [] st.cur = "defaults" ->
                IF HasKey(st.defs, k) THEN [st EXCEPT !.err = TRUE]
                ELSE [st EXCEPT !.defs = Append(@, <<k, ln.v>>)]
           [] OTHER ->
                IF HasKey(st.secs[Len(st.secs)].kv, k) THEN [st EXCEPT !.err = TRUE]
                ELSE [st EXCEPT !.secs[Len(st.secs)].kv = Append(@, <<k, ln.v>>)]
    [] OTHER -> [st EXCEPT !.err = TRUE]

RECURSIVE ReadLines(_, _)
ReadLines(st, ls) ==
  IF ls = <<>> THEN st ELSE ReadLines(ReadLine(st, Head(ls)), Tail(ls))

\* ConfigParser().read(path) of an existing file; .err: the read raised
read(f) == [ReadLines(ConfigParser, f.lines) EXCEPT !.cur = "none"]

\* RawConfigParser._write_section
WriteSection(n, kvs) ==
  <<Hdr(n)>> \o [i \in 1..Len(kvs) |-> KV(kvs[i][1], kvs[i][2])] \o <<Blank>>

RECURSIVE WriteSections(_)
WriteSections(secs) ==
  IF secs = <<>> THEN <<>>
  ELSE WriteSection(Head(secs).n, Head(secs).kv) \o WriteSections(Tail(secs))

\* RawConfigParser.write: the content of the file written
write(cfg) ==
  File((IF cfg.defs # <<>> THEN WriteSection(DEFAULTSECT, cfg.defs) ELSE <<>>)
       \o WriteSections(cfg.secs))

\* RawConfigParser.add_section (the caller has checked has_section)
add_section(cfg, n) == [cfg EXCEPT !.secs = Append(@, [n |-> n, kv |-> <<>>])]

\* RawConfigParser.remove_section
remove_section(cfg, n) ==
  [cfg EXCEPT !.secs = SelectSeq(@, LAMBDA s : s.n # n)]

SetKV(kvs, k, v) ==
  IF HasKey(kvs, k)
  THEN [i \in 1..Len(kvs) |-> IF kvs[i][1] = k THEN <<k, v>> ELSE kvs[i]]
  ELSE Append(kvs, <<k, v>>)

\* BasicInterpolation.before_set: a bare '%' in the value raises ValueError
BadInterpolation(v) == \E i \in 1..Len(v) : v[i] = "%"

\* ConfigParser.set on an existing section
set(cfg, n, k, v) ==
  [cfg EXCEPT !.secs =
     [i \in 1..Len(cfg.secs) |->
        IF cfg.secs[i].n = n
        THEN [cfg.secs[i] EXCEPT !.kv = SetKV(@, optionxform(k), v)]
        ELSE cfg.secs[i]]]

\* the options a parsed file holds in section n (empty when there is none)
Options(cfg, n) ==
  IF has_section(cfg, n)
  THEN LET i == CHOOSE i \in 1..Len(cfg.secs) : cfg.secs[i].n = n
       IN {cfg.secs[i].kv[j] : j \in 1..Len(cfg.secs[i].kv)}
  ELSE {}

----------------------------------------------------------------------------
(* Sorting *)

Names == {"default", "dev", "work"}

\* Python's str ordering on the profile names of the model
Rank(n) ==
  CASE n = "DEFAULT" -> 0
    [] n = "default" -> 1
    [] n = "dev" -> 2
    [] n = "personal" -> 3
    [] n = "profile dev" -> 4
    [] n = "profile personal" -> 5
    [] n = "profile work" -> 6
    [] n = "work" -> 7
    [] OTHER -> 8

RECURSIVE Insert(_, _)
Insert(x, s) ==
  IF s = <<>> THEN <<x>>
  ELSE IF Rank(x) <= Rank(Head(s)) THEN <<x>> \o s
  ELSE <<Head(s)>> \o Insert(x, Tail(s))

\* the list as it comes, in the order of the file
sorted_as_found(s) == s

RECURSIVE sorted(_)
sorted(s) == IF s = <<>> THEN <<>> ELSE Insert(Head(s), sorted(Tail(s)))

InSeq(x, s) == \E i \in 1..Len(s) : s[i] = x

----------------------------------------------------------------------------
(* The external identity check: aws sts get-caller-identity *)

\* outcomes of subprocess.run: an exception, or an exit code with its output
ExtOk       == [exc |-> "none", returncode |-> 0, stdout |-> "object", stderr |-> ""]
ExtNoFields == [exc |-> "none", returncode |-> 0, stdout |-> "empty object", stderr |-> ""]
ExtNonObject == [exc |-> "none", returncode |-> 0, stdout |-> "array", stderr |-> ""]
ExtGarbage  == [exc |-> "none", returncode |-> 0, stdout |-> "not json", stderr |-> ""]
ExtRejected == [exc |-> "none", returncode |-> 255, stdout |-> "", stderr |-> "InvalidClientTokenId"]
ExtSilent   == [exc |-> "none", returncode |-> 1, stdout |-> "", stderr |-> ""]
ExtTimeout  == [exc |-> "TimeoutExpired", returncode |-> 0, stdout |-> "", stderr |-> ""]
ExtMissing  == [exc |-> "FileNotFoundError", returncode |-> 0, stdout |-> "", stderr |-> ""]
ExtOSError  == [exc |-> "PermissionError", returncode |-> 0, stdout |-> "", stderr |-> ""]
NoExt       == [exc |-> "-", returncode |-> 0, stdout |-> "", stderr |-> ""]

AllExt == {ExtOk, ExtNoFields, ExtNonObject, ExtGarbage, ExtRejected, ExtSilent,
           ExtTimeout, ExtMissing, ExtOSError}

\* the outcomes the multi-step operations are explored with
SomeExt == {ExtOk, ExtGarbage, ExtRejected, ExtTimeout, ExtMissing}

\* json.loads(result.stdout) fails
JSONDecodeError(stdout) == stdout = "not json"

\* data.get fails: the JSON value is no object
AttributeError(stdout) == stdout = "array"

\* data.get(field, 'Unknown')
JsonGet(stdout, field) ==
  IF stdout = "object"
  THEN (IF field = "Account" THEN "123456789012" ELSE "arn:aws:iam::123456789012:user/alice")
  ELSE "Unknown"

\* a validator that reports a timeout as invalid credentials
get_account_info_timeout_invalid(ext) ==
  CASE ext.exc = "TimeoutExpired" -> <<"Invalid", "AWS call timed out (>10s)">>
    [] ext.exc = "FileNotFoundError" -> <<"Error", "AWS CLI not found - please install it">>
    [] ext.exc # "none" -> <<"Error", ext.exc>>
    [] ext.returncode = 0 ->
         IF JSONDecodeError(ext.stdout) THEN <<"Error", "Invalid JSON response from AWS">>
         ELSE IF AttributeError(ext.stdout) THEN <<"Error", "AttributeError">>
         ELSE <<JsonGet(ext.stdout, "Account"), JsonGet(ext.stdout, "Arn")>>
    [] OTHER -> <<"Invalid", IF ext.stderr # "" THEN ext.stderr ELSE "Unknown error">>

\* AWSProfileManager.get_account_info: the pair returned
get_account_info(ext) ==
  CASE ext.exc = "TimeoutExpired" -> <<"Timeout", "AWS call timed out (>10s)">>
    [] ext.exc = "FileNotFoundError" -> <<"Error", "AWS CLI not found - please install it">>
    [] ext.exc # "none" -> <<"Error", ext.exc>>
    [] ext.returncode = 0 ->
         IF JSONDecodeError(ext.stdout) THEN <<"Error", "Invalid JSON response from AWS">>
         ELSE IF AttributeError(ext.stdout) THEN <<"Error", "AttributeError">>
         ELSE <<JsonGet(ext.stdout, "Account"), JsonGet(ext.stdout, "Arn")>>
    [] OTHER -> <<"Invalid", IF ext.stderr # "" THEN ext.stderr ELSE "Unknown error">>

----------------------------------------------------------------------------
(* Reading the session and the registry *)

\* AWSProfileManager.get_current_profile: os.environ.get('AWS_PROFILE', 'default')
get_current_profile(env) == IF env # Unset THEN env ELSE "default"

\* a reader that lists the profiles of the config file as well
get_available_profiles_union(creds) ==
  LET cfg == read(creds)
      other == read(config)
      folded == {n \in Names : \/ n = "default" /\ has_section(other, "default")
                               \/ n = "dev" /\ has_section(other, "profile dev")
                               \/ n = "work" /\ has_section(other, "profile work")}
      named == {cfg.secs[i].n : i \in 1..Len(cfg.secs)} \cup folded
      RECURSIVE Listing(_)
      Listing(S) == IF S = {} THEN <<>>
                    ELSE LET x == CHOOSE x \in S : TRUE IN <<x>> \o Listing(S \ {x})
  IN [raised |-> creds.exists /\ cfg.err, profiles |-> sorted(Listing(named)), out |-> <<>>]

\* a reader for which a missing credentials file is an error
get_available_profiles_strict(creds) ==
  LET cfg == read(creds)
  IN [raised |-> ~creds.exists \/ cfg.err, profiles |-> sorted(sections(cfg)), out |-> <<>>]

\* AWSProfileManager.get_available_profiles on a credentials file
get_available_profiles(creds) ==
  IF ~creds.exists
  THEN [raised |-> FALSE, profiles |-> <<>>,
        out |-> <<<<"No AWS credentials file found", "">>, <<"Run 'aws configure'", "">>>>]
  ELSE LET cfg == read(creds)
           profiles == sections(cfg)
           listed == IF ~InSeq("default", profiles)
                        /\ has_default_option(cfg, "aws_access_key_id")
                     THEN <<"default">> \o profiles
                     ELSE profiles
       IN IF cfg.err
          THEN [raised |-> TRUE, profiles |-> <<>>, out |-> <<>>]
          ELSE [raised |-> FALSE, profiles |-> sorted(listed), out |-> <<>>]

----------------------------------------------------------------------------
(* The state an operation works on, and its record in last *)

\* the files and the override as an operation sees and leaves them;
\* err names the exception raised inside the operation's try block
Frame ==
  [credentials |-> credentials, config |-> config,
   backup_creds |-> backup_creds, backup_config |-> backup_config,
   AWS_PROFILE |-> AWS_PROFILE,
   AWS_SHARED_CREDENTIALS_FILE |-> AWS_SHARED_CREDENTIALS_FILE,
   temp_creds |-> temp_creds, out |-> <<>>, err |-> ""]

Snapshot ==
  [credentials |-> credentials, config |-> config,
   backup_creds |-> backup_creds, backup_config |-> backup_config,
   AWS_PROFILE |-> AWS_PROFILE,
   AWS_SHARED_CREDENTIALS_FILE |-> AWS_SHARED_CREDENTIALS_FILE,
   temp_creds |-> temp_creds]

NoInput == <<"-">>

\* interactive_mode is not running
NoSession ==
  [pc |-> "none", profiles |-> <<>>, current |-> <<>>, shown |-> <<>>, calls |-> <<>>,
   choice |-> NoInput, sub |-> NoInput, said |-> "", prompts |-> 0, sts |-> <<>>]

\* a call and what it read; ret and out are filled in when it ends
Call(op, name) ==
  [op |-> op, name |-> name, shell |-> FALSE, answer |-> NoInput,
   access_key |-> NoInput, secret_key |-> NoInput, region |-> NoInput,
   output_format |-> NoInput, ext |-> NoExt, tool |-> "",
   names_only |-> FALSE, calls |-> <<>>, shown |-> <<>>,
   ret |-> "", val |-> <<>>, out |-> <<>>, err |-> ""]

Say(s, line, arg) == [s EXCEPT !.out = Append(@, <<line, arg>>)]

\* the operation ends: ret is "True", "False", "None" or "Raise"
Finish(s, ret, call) ==
  /\ credentials' = s.credentials
  /\ config' = s.config
  /\ backup_creds' = s.backup_creds
  /\ backup_config' = s.backup_config
  /\ AWS_PROFILE' = s.AWS_PROFILE
  /\ AWS_SHARED_CREDENTIALS_FILE' = s.AWS_SHARED_CREDENTIALS_FILE
  /\ temp_creds' = s.temp_creds
  /\ last' = [call EXCEPT !.ret = ret, !.out = s.out, !.err = s.err]
  /\ pre' = Snapshot
  /\ nops' = nops + 1
  /\ UNCHANGED <<fault, proc>>

----------------------------------------------------------------------------
(* File operations that can fail *)

NoFault == [at |-> "none", trunc |-> FALSE]

\* the operation at this point raises OSError
Failed(at) == fault.at = at

\* a file whose write failed: left as it was, or truncated by open(path, 'w')
Damaged(old) == IF fault.trunc THEN File(<<>>) ELSE old

\* the config-file section of a profile: f"profile {name}" except for default
Prefixed(n) ==
  CASE n = "default" -> "profile default"
    [] n = "dev" -> "profile dev"
    [] n = "work" -> "profile work"
    [] n = "personal" -> "profile personal"
    [] OTHER -> "profile ?"

\* the credentials-file name used for the config file as well
config_section_plain(n) == n

\* config_section = f"profile {profile_name}" if profile_name != 'default' else profile_name
config_section(n) == IF n # "default" THEN Prefixed(n) ELSE n

\* no backup is taken
BackupFiles_none(s) == s

\* shutil.copy2 of each registry file that exists to its backup
BackupFiles(s) ==
  LET s1 == IF ~s.credentials.exists THEN s
            ELSE IF Failed("backup_creds")
            THEN [s EXCEPT !.err = "OSError", !.backup_creds = Damaged(@)]
            ELSE Say([s EXCEPT !.backup_creds = s.credentials],
                     "Backed up credentials", "")
  IN IF s1.err # "" \/ ~s1.config.exists THEN s1
     ELSE IF Failed("backup_config")
     THEN [s1 EXCEPT !.err = "OSError", !.backup_config = Damaged(@)]
     ELSE Say([s1 EXCEPT !.backup_config = s1.config], "Backed up config", "")

----------------------------------------------------------------------------
(* delete_profile *)

Yes == <<"y", "e", "s">>

\* a guard that protects nothing
IsProtected_none(n) == FALSE

\* the guard on the protected profile
IsProtected(n) == n = "default"

\* a confirmation that also takes the short form 'y'
Confirmed_short(answer) == Lower(Strip(answer)) \in {<<"y">>, Yes}

\* the confirmation read at the prompt: input(...).strip().lower() == 'yes'
Confirmed(answer) == Lower(Strip(answer)) = Yes

\* a removal that writes the file back without the section that follows n as well
RemoveFromCredentials_greedy(s, n) ==
  IF s.err # "" \/ ~s.credentials.exists THEN s
  ELSE LET creds_config == read(s.credentials)
           i == CHOOSE i \in 1..Len(creds_config.secs) : creds_config.secs[i].n = n
           kept == [creds_config EXCEPT !.secs = SubSeq(@, 1, i - 1) \o SubSeq(@, i + 2, Len(@))]
       IN IF creds_config.err THEN [s EXCEPT !.err = "configparser.Error"]
          ELSE IF ~has_section(creds_config, n) THEN s
          ELSE [s EXCEPT !.credentials = write(kept)]

\* a removal that leaves the credentials file as it is
RemoveFromCredentials_keep(s, n) == s

\* remove the section from the credentials file and write the file back
RemoveFromCredentials(s, n) ==
  IF s.err # "" \/ ~s.credentials.exists THEN s
  ELSE LET creds_config == read(s.credentials) IN
       IF creds_config.err THEN [s EXCEPT !.err = "configparser.Error"]
       ELSE IF ~has_section(creds_config, n) THEN s
       ELSE IF Failed("write_creds")
       THEN [s EXCEPT !.err = "OSError", !.credentials = Damaged(@)]
       ELSE Say([s EXCEPT !.credentials = write(remove_section(creds_config, n))],
                "Removed from credentials file", n)

\* remove the section from the config file and write the file back
RemoveFromConfig(s, n) ==
  IF s.err # "" \/ ~s.config.exists THEN s
  ELSE LET config_config == read(s.config) IN
       IF config_config.err THEN [s EXCEPT !.err = "configparser.Error"]
       ELSE IF ~has_section(config_config, config_section(n)) THEN s
       ELSE IF Failed("write_config")
       THEN [s EXCEPT !.err = "OSError", !.config = Damaged(@)]
       ELSE Say([s EXCEPT !.config =
                   write(remove_section(config_config, config_section(n)))],
                "Removed from config file", n)

\* a deletion that leaves the override alone
ResetCurrent_never(s, n) == s

\* if the deleted profile was the current one, drop the override
ResetCurrent(s, n) ==
  IF s.err # "" THEN s
  ELSE IF get_current_profile(s.AWS_PROFILE) = n
  THEN Say([s EXCEPT !.AWS_PROFILE = Unset], "Reset current profile to 'default'", n)
  ELSE s

\* the try block of delete_profile
DeleteConfirmed(s, n) ==
  ResetCurrent(RemoveFromConfig(RemoveFromCredentials(BackupFiles(s), n), n), n)

ConfirmAnswers ==
  {<<" ", "Y", "e", "S", " ">>, <<"y">>, <<>>, KeyboardInterrupt, EOFError}

delete_profile(n) ==
  LET call == Call("delete_profile", n)
      avail == get_available_profiles(credentials)
      s0 == [Frame EXCEPT !.out = avail.out]
  IN IF IsProtected(n)
     THEN Finish(Say(Frame, "Cannot delete the 'default' profile", ""), "False", call)
     ELSE IF avail.raised THEN Finish(Frame, "Raise", call)
     ELSE IF ~InSeq(n, avail.profiles)
     THEN Finish(Say(s0, "Profile not found", n), "False", call)
     ELSE \E answer \in ConfirmAnswers :
            LET asked == [call EXCEPT !.answer = answer] IN
            IF ~IsText(answer) THEN Finish(s0, "Raise", asked)
            ELSE IF ~Confirmed(answer)
            THEN Finish(Say(s0, "Profile deletion cancelled", ""), "False", asked)
            ELSE LET s == DeleteConfirmed(s0, n) IN
                 IF s.err # ""
                 THEN Finish(Say(s, "Error deleting profile", s.err), "False", asked)
                 ELSE Finish(Say(s, "Successfully deleted profile", n), "True", asked)

----------------------------------------------------------------------------
(* switch_profile *)

\* Python truth value of the pair get_account_info returns: `not account_info`
NotTruthy(account_info) == Len(account_info) = 0

ExportLine == "export AWS_PROFILE="

\* a check that takes every name for a profile
ProfileExists_any(n, profiles) == TRUE

\* `profile_name not in profiles` is false
ProfileExists(n, profiles) == InSeq(n, profiles)

\* a switch that sets the override in shell mode as well
Switched_both(s, n, shell_mode, account_info) ==
  IF shell_mode THEN Say([s EXCEPT !.AWS_PROFILE = n], ExportLine, n)
  ELSE Say(Say([s EXCEPT !.AWS_PROFILE = n], "Switched to AWS profile", n),
           "Account", account_info[1])

\* the effect of a switch that passed the checks
Switched(s, n, shell_mode, account_info) ==
  IF shell_mode THEN Say(s, ExportLine, n)
  ELSE Say(Say([s EXCEPT !.AWS_PROFILE = n], "Switched to AWS profile", n),
           "Account", account_info[1])

switch_profile(n, shell_mode) ==
  LET call == [Call("switch_profile", n) EXCEPT !.shell = shell_mode]
      avail == get_available_profiles(credentials)
      s0 == [Frame EXCEPT !.out = avail.out]
  IN IF avail.raised THEN Finish(Frame, "Raise", call)
     ELSE IF ~ProfileExists(n, avail.profiles)
     THEN Finish(Say(Say(s0, "Profile not found", n),
                     "Available profiles", ""), "False", call)
     ELSE IF get_current_profile(AWS_PROFILE) = n
     THEN Finish(IF shell_mode THEN Say(s0, ExportLine, n)
                 ELSE Say(s0, "Already using AWS profile", n), "True", call)
     ELSE \E ext \in SomeExt :
            LET account_info == get_account_info(ext)
                checked == [call EXCEPT !.ext = ext]
            IN IF NotTruthy(account_info)
               THEN Finish(Say(s0, "Invalid or expired credentials", n), "False", checked)
               ELSE Finish(Switched(s0, n, shell_mode, account_info), "True", checked)

----------------------------------------------------------------------------
(* The readers called on their own *)

\* what `aws configure list` would show on its profile line
ToolReports == {NotSet, "work"}

GetCurrentProfile ==
  \E tool \in ToolReports :
    Finish(Frame, "Value",
           [Call("get_current_profile", "") EXCEPT
              !.tool = tool, !.val = <<get_current_profile(AWS_PROFILE)>>])

GetAvailableProfiles ==
  LET avail == get_available_profiles(credentials) IN
  Finish([Frame EXCEPT !.out = avail.out],
         IF avail.raised THEN "Raise" ELSE "Value",
         [Call("get_available_profiles", "") EXCEPT !.val = avail.profiles])

GetAccountInfo ==
  \E ext \in AllExt :
    Finish(Frame, "Value",
           [Call("get_account_info", "work") EXCEPT
              !.ext = ext, !.val = get_account_info(ext)])

----------------------------------------------------------------------------
(* create_profile *)

\* the answer to "Overwrite existing profile? (y/n)": .strip().lower() in ['y', 'yes']
OverwriteConfirmed(answer) == Lower(Strip(answer)) \in {<<"y">>, Yes}

\* input(...).strip() or default
OrDefault(text, default) == IF Strip(text) = <<>> THEN default ELSE Strip(text)

DefaultRegion == <<"us-east-1">>
DefaultOutput == <<"json">>

\* a credential test that does not look at the exit code
CredentialTest_exit_ignored(ext) ==
  CASE ext.exc = "TimeoutExpired" -> "subprocess.TimeoutExpired"
    [] ext.exc # "none" -> ext.exc
    [] ext.returncode # 0 -> ""
    [] JSONDecodeError(ext.stdout) -> "json.JSONDecodeError"
    [] AttributeError(ext.stdout) -> "AttributeError"
    [] OTHER -> ""

\* the outcome of the credential test: "" when validated, else how it ended
CredentialTest(ext) ==
  CASE ext.exc = "TimeoutExpired" -> "subprocess.TimeoutExpired"
    [] ext.exc # "none" -> ext.exc
    [] ext.returncode # 0 -> "rejected"
    [] JSONDecodeError(ext.stdout) -> "json.JSONDecodeError"
    [] AttributeError(ext.stdout) -> "AttributeError"
    [] OTHER -> ""

\* the credentials file is written from an empty parser: the file is not read first
UpdateCredentials_fresh(s, n, access_key, secret_key) ==
  IF s.err # "" THEN s
  ELSE LET updated == set(set(add_section(ConfigParser, n), n, "aws_access_key_id", access_key),
                          n, "aws_secret_access_key", secret_key)
       IN IF BadInterpolation(access_key) \/ BadInterpolation(secret_key)
          THEN [s EXCEPT !.err = "ValueError"]
          ELSE IF Failed("write_creds")
          THEN [s EXCEPT !.err = "OSError", !.credentials = Damaged(@)]
          ELSE Say([s EXCEPT !.credentials = write(updated)],
                   "Added to credentials file", n)

\* read the credentials file, set the two keys of the section, write the file
UpdateCredentials(s, n, access_key, secret_key) ==
  IF s.err # "" THEN s
  ELSE LET creds_config == IF s.credentials.exists THEN read(s.credentials)
                           ELSE ConfigParser
           with_section == IF has_section(creds_config, n) THEN creds_config
                           ELSE add_section(creds_config, n)
           updated == set(set(with_section, n, "aws_access_key_id", access_key),
                          n, "aws_secret_access_key", secret_key)
       IN IF creds_config.err THEN [s EXCEPT !.err = "configparser.Error"]
          ELSE IF BadInterpolation(access_key) \/ BadInterpolation(secret_key)
          THEN [s EXCEPT !.err = "ValueError"]
          ELSE IF Failed("write_creds")
          THEN [s EXCEPT !.err = "OSError", !.credentials = Damaged(@)]
          ELSE Say([s EXCEPT !.credentials = write(updated)],
                   "Added to credentials file", n)

\* read the config file, set the two keys of the section, write the file
UpdateConfig(s, n, region, output_format) ==
  IF s.err # "" THEN s
  ELSE LET config_config == IF s.config.exists THEN read(s.config) ELSE ConfigParser
           sect == config_section(n)
           with_section == IF has_section(config_config, sect) THEN config_config
                           ELSE add_section(config_config, sect)
           updated == set(set(with_section, sect, "region", region),
                          sect, "output", output_format)
       IN IF config_config.err THEN [s EXCEPT !.err = "configparser.Error"]
          ELSE IF BadInterpolation(region) \/ BadInterpolation(output_format)
          THEN [s EXCEPT !.err = "ValueError"]
          ELSE IF Failed("write_config")
          THEN [s EXCEPT !.err = "OSError", !.config = Damaged(@)]
          ELSE Say([s EXCEPT !.config = write(updated)], "Added to config file", n)

\* the write phase of create_profile: backups, then the two files
CreateWrite(s, n, access_key, secret_key, region, output_format) ==
  UpdateConfig(UpdateCredentials(BackupFiles(s), n, access_key, secret_key),
               n, region, output_format)

\* what the operator types at the four data prompts
Entry(ak, sk, rg, fmt) ==
  [access_key |-> ak, secret_key |-> sk, region |-> rg, output_format |-> fmt]

Entries ==
  { Entry(<<>>, NoInput, NoInput, NoInput),
    Entry(KeyboardInterrupt, NoInput, NoInput, NoInput),
    Entry(EOFError, NoInput, NoInput, NoInput),
    Entry(<<"A">>, <<" ">>, NoInput, NoInput),
    Entry(<<"A">>, KeyboardInterrupt, NoInput, NoInput),
    Entry(<<"A">>, <<"S">>, <<>>, <<>>),
    Entry(<<" ", "B", " ">>, <<"T", " ">>, <<" ", "eu">>, <<"text">>),
    Entry(<<"%">>, <<"S">>, <<>>, <<>>),
    Entry(<<"A">>, <<"S">>, KeyboardInterrupt, NoInput),
    Entry(<<"A">>, <<"S">>, <<>>, KeyboardInterrupt) }

OverwriteAnswers == {<<" ", "Y">>, <<"Y", "E", "S">>, <<"n">>, KeyboardInterrupt}

\* the temporary file the credential test reads: the section of the profile
\* with the keys typed at the prompts, the secret among them
TempCredentials(n, access_key, secret_key, region) ==
  File(<<Hdr(n), KV("aws_access_key_id", access_key),
         KV("aws_secret_access_key", secret_key), KV("region", region)>>)

\* the finally block on AWS_SHARED_CREDENTIALS_FILE: `if old_creds_file:` puts
\* the old value back, otherwise the variable is deleted
Restored(old_creds_file) ==
  IF old_creds_file # Unset /\ old_creds_file # "" THEN old_creds_file ELSE Unset

\* the state after the credential test and its finally block: the variable
\* restored, the temporary file unlinked unless os.unlink failed (ignored)
Tested(s, n, access_key, secret_key, region) ==
  [s EXCEPT !.AWS_SHARED_CREDENTIALS_FILE = Restored(@),
            !.temp_creds = IF Failed("unlink_temp")
                           THEN TempCredentials(n, access_key, secret_key, region)
                           ELSE Absent]

\* create_profile from the first data prompt on
CreateFrom(s0, n, call) ==
  \E e \in Entries :
    LET c1 == [call EXCEPT !.access_key = e.access_key]
        c2 == [c1 EXCEPT !.secret_key = e.secret_key]
        c4 == [c2 EXCEPT !.region = e.region, !.output_format = e.output_format]
        access_key == Strip(e.access_key)
        secret_key == Strip(e.secret_key)
        region == OrDefault(e.region, DefaultRegion)
        output_format == OrDefault(e.output_format, DefaultOutput)
    IN IF e.access_key = KeyboardInterrupt THEN Finish(s0, "Raise", c1)
       ELSE IF e.access_key = EOFError
       THEN Finish(Say([s0 EXCEPT !.err = "EOFError"], "Error creating profile", ""),
                   "False", c1)
       ELSE IF access_key = <<>>
       THEN Finish(Say(s0, "Access Key ID cannot be empty", ""), "False", c1)
       ELSE IF e.secret_key = KeyboardInterrupt
       THEN Finish(Say(s0, "Profile creation cancelled", ""), "False", c2)
       ELSE IF e.secret_key = EOFError
       THEN Finish(Say([s0 EXCEPT !.err = "EOFError"], "Error creating profile", ""),
                   "False", c2)
       ELSE IF secret_key = <<>>
       THEN Finish(Say(s0, "Secret Access Key cannot be empty", ""), "False", c2)
       ELSE IF KeyboardInterrupt \in {e.region, e.output_format}
       THEN Finish(s0, "Raise", c4)
       ELSE IF EOFError \in {e.region, e.output_format}
       THEN Finish(Say([s0 EXCEPT !.err = "EOFError"], "Error creating profile", ""),
                   "False", c4)
       ELSE \E ext \in SomeExt :
              LET c5 == [c4 EXCEPT !.ext = ext]
                  test == CredentialTest(ext)
                  t == Tested(s0, n, access_key, secret_key, region)
                  s == CreateWrite(Say(t, "Credentials validated successfully", ""),
                                   n, access_key, secret_key, region, output_format)
              IN IF test # ""
                 THEN Finish(Say([t EXCEPT !.err = IF test = "rejected" THEN "" ELSE test],
                                 "Credential validation failed", test), "False", c5)
                 ELSE IF s.err # ""
                 THEN Finish(Say(s, "Error creating profile", s.err), "False", c5)
                 ELSE Finish(Say(s, "Successfully created profile", n), "True", c5)

create_profile(n) ==
  LET call == Call("create_profile", n)
      avail == get_available_profiles(credentials)
      s0 == [Frame EXCEPT !.out = avail.out]
  IN IF n = ""
     THEN Finish(Say(Frame, "Profile name cannot be empty", ""), "False", call)
     ELSE IF avail.raised THEN Finish(Frame, "Raise", call)
     ELSE IF InSeq(n, avail.profiles)
     THEN \E answer \in OverwriteAnswers :
            LET asked == [call EXCEPT !.answer = answer]
                s1 == Say(s0, "Profile already exists", n)
            IN IF ~IsText(answer) THEN Finish(s1, "Raise", asked)
               ELSE IF ~OverwriteConfirmed(answer)
               THEN Finish(Say(s1, "Profile creation cancelled", ""), "False", asked)
               ELSE CreateFrom(s1, n, asked)
     ELSE CreateFrom(s0, n, call)

----------------------------------------------------------------------------
(* setup_shell_integration *)

\* the startup file: does it exist, does it hold the line
\* 'AWS Profile Switcher - Auto-generated', is there a .backup copy of it
ShellConfig(exists, integrated, backup) ==
  [exists |-> exists, integrated |-> integrated, backup |-> backup]

NoShellConfig == ShellConfig(FALSE, FALSE, FALSE)

\* the value setup_shell_integration returns, and the startup file it leaves
SetupShell(shell, rc) ==
  IF shell \notin {"zsh", "bash"} THEN [ret |-> "False", rc |-> rc]
  ELSE IF rc.exists /\ rc.integrated THEN [ret |-> "True", rc |-> rc]
  ELSE LET copied == IF rc.exists THEN [rc EXCEPT !.backup = TRUE] ELSE rc IN
       IF Failed("write_shell_config") THEN [ret |-> "False", rc |-> copied]
       ELSE [ret |-> "True", rc |-> ShellConfig(TRUE, TRUE, copied.backup)]

setup_shell_integration ==
  LET done == SetupShell(SHELL, shell_config) IN
  /\ Finish(Frame, done.ret, Call("setup_shell_integration", ""))
  /\ shell_config' = done.rc
  /\ UNCHANGED SHELL

----------------------------------------------------------------------------
(* Initial states: registry files as a user may have them *)

Key(v) == <<"aws_access_key_id", v>>
Secret(v) == <<"aws_secret_access_key", v>>

CredsOf(n) == WriteSection(n, <<Key(<<"K">>), Secret(<<"Z">>)>>)
ConfOf(sect) == WriteSection(sect, <<<<"region", <<"us-west-2">>>>, <<"output", <<"json">>>>>>)

\* a hand-edited section: no blank line after it, a comment inside
HandCreds(n) == <<Hdr(n), Cmt, KV("aws_access_key_id", <<"K">>),
                  KV("aws_secret_access_key", <<"Z">>)>>

World(c, g, bc, bg) ==
  [credentials |-> c, config |-> g, backup_creds |-> bc, backup_config |-> bg]

Worlds ==
  { \* an empty home directory
    World(Absent, Absent, Absent, Absent),
    \* files as this tool writes them
    World(File(CredsOf("default") \o CredsOf("work")),
          File(ConfOf("default") \o ConfOf("profile work")), Absent, Absent),
    \* hand-edited files with comments and a capitalised key, and old backups
    World(File(<<Cmt>> \o HandCreds("work") \o HandCreds("dev")),
          File(<<Cmt, Hdr("profile work"), KV("Region", <<"eu">>), Blank,
                 Hdr("profile dev"), KV("region", <<"eu">>)>>),
          File(<<Cmt>>), File(<<Cmt>>)),
    \* a [DEFAULT] section holding the default credentials
    World(File(WriteSection(DEFAULTSECT, <<Key(<<"K">>), Secret(<<"Z">>)>>)
               \o CredsOf("work")),
          File(ConfOf("default")), Absent, Absent),
    \* a duplicate section in the credentials file
    World(File(CredsOf("work") \o CredsOf("dev") \o CredsOf("work")),
          File(ConfOf("profile work")), Absent, Absent),
    \* a line that is no header, option or comment in the config file
    World(File(CredsOf("work") \o CredsOf("dev")),
          File(ConfOf("profile work") \o <<Bad>> \o ConfOf("profile dev")),
          Absent, Absent),
    \* no config file
    World(File(CredsOf("dev")), Absent, Absent, Absent),
    \* a profile that lives in the config file only (a role profile)
    World(File(CredsOf("work")),
          File(WriteSection("profile dev", <<<<"role_arn", <<"r">>>>>>)
               \o ConfOf("profile work")), Absent, Absent) }

Faults ==
  { NoFault,
    [at |-> "backup_creds", trunc |-> TRUE],
    [at |-> "backup_config", trunc |-> FALSE],
    [at |-> "write_creds", trunc |-> TRUE],
    [at |-> "write_config", trunc |-> FALSE] }

EnvValues == {Unset, "work", "dev"}

Init ==
  /\ \E w \in Worlds :
       /\ credentials = w.credentials
       /\ config = w.config
       /\ backup_creds = w.backup_creds
       /\ backup_config = w.backup_config
  /\ AWS_PROFILE \in EnvValues
  /\ fault \in Faults
  /\ last = Call("", "")
  /\ AWS_SHARED_CREDENTIALS_FILE = Unset
  /\ temp_creds = Absent
  /\ pre = Snapshot
  /\ nops = 0
  /\ SHELL = "zsh"
  /\ shell_config = NoShellConfig
  /\ exit_code = <<>>
  /\ session = NoSession
  /\ proc = <<>>

DeleteProfile == \E n \in Names : delete_profile(n)

CreateProfile == \E n \in Names \cup {""} : create_profile(n)

SwitchProfile == \E n \in Names, shell_mode \in BOOLEAN : switch_profile(n, shell_mode)

\* the caller has seen the result of the last call; the next call can be made
Return ==
  /\ last.op # ""
  /\ nops < MaxOps
  /\ last' = Call("", "")
  /\ pre' = Snapshot
  /\ UNCHANGED <<credentials, config, backup_creds, backup_config, AWS_PROFILE,
                 fault, nops, SHELL, shell_config, exit_code, proc,
                 AWS_SHARED_CREDENTIALS_FILE, temp_creds, session>>

Idle == last.op = "" /\ nops < MaxOps

\* a method called inside a running process: no process ends
InProcess == UNCHANGED <<SHELL, shell_config, exit_code, session>>

Next ==
  \/ Idle /\ DeleteProfile /\ InProcess
  \/ Idle /\ CreateProfile /\ InProcess
  \/ Idle /\ SwitchProfile /\ InProcess
  \/ Idle /\ GetCurrentProfile /\ InProcess
  \/ Idle /\ GetAvailableProfiles /\ InProcess
  \/ Idle /\ GetAccountInfo /\ InProcess
  \/ Return

Spec == Init /\ [][Next]_vars

----------------------------------------------------------------------------
(* Properties *)

Did(op) == last.op = op

FilesUnchanged == credentials = pre.credentials /\ config = pre.config

BackupsUnchanged ==
  backup_creds = pre.backup_creds /\ backup_config = pre.backup_config

OverrideUnchanged == AWS_PROFILE = pre.AWS_PROFILE

\* the reader lists n for the credentials file f
Listed(f, n) ==
  LET avail == get_available_profiles(f) IN ~avail.raised /\ InSeq(n, avail.profiles)

\* the reader returns a list for f, and n is not in it
NotListed(f, n) ==
  LET avail == get_available_profiles(f) IN ~avail.raised /\ ~InSeq(n, avail.profiles)

\* a file that parses, with its sections
Parses(f) == f.exists /\ ~read(f).err
SectionNames(f) ==
  IF f.exists THEN LET secs == read(f).secs IN {secs[i].n : i \in 1..Len(secs)} ELSE {}
SectionOptions(f, sect) == IF f.exists THEN Options(read(f), sect) ELSE {}
DefaultOptions(f) ==
  IF f.exists THEN LET defs == read(f).defs IN {defs[i] : i \in 1..Len(defs)} ELSE {}

\* every section of the file other than sect is there as before, with the same options
OthersKept(before, after, sect) ==
  /\ SectionNames(after) \ {sect} = SectionNames(before) \ {sect}
  /\ \A x \in SectionNames(before) \ {sect} :
       SectionOptions(after, x) = SectionOptions(before, x)
  /\ DefaultOptions(after) = DefaultOptions(before)

\* C1: delete_profile('default') returns False in every state, whatever the
\* files, the override and the pending input, and leaves the credentials
\* file, the config file and both backups as they were.
C1_DeleteDefaultRefused ==
  (Did("delete_profile") /\ last.name = "default") =>
    /\ last.ret = "False"
    /\ FilesUnchanged
    /\ BackupsUnchanged

\* delete_profile('default') was called on a credentials file that lists default
C1_Witness ==
  /\ Did("delete_profile") /\ last.name = "default" /\ last.ret = "False"
  /\ Listed(pre.credentials, "default")
  /\ pre.AWS_PROFILE = "work"

\* C2: for an existing non-default profile n and any text typed at the
\* confirmation prompt that is not 'yes' after trimming and lower-casing,
\* delete_profile(n) returns False and changes neither registry file, neither
\* backup nor the override; when no confirmation is given at all (the prompt
\* is interrupted) nothing has been backed up or written either.
C2_DeleteNeedsYes ==
  (/\ Did("delete_profile") /\ last.name # "default"
   /\ Listed(pre.credentials, last.name)
   /\ Lower(Strip(last.answer)) # <<"y", "e", "s">>) =>
    /\ IsText(last.answer) => last.ret = "False"
    /\ FilesUnchanged
    /\ BackupsUnchanged
    /\ OverrideUnchanged

\* an existing profile, the current one, and the answer 'y'
C2_Witness ==
  /\ Did("delete_profile") /\ last.name = "work"
  /\ Listed(pre.credentials, "work")
  /\ last.answer = <<"y">>
  /\ last.ret = "False"
  /\ pre.AWS_PROFILE = "work"

SectionFor(n) == IF n = "default" THEN "default" ELSE Prefixed(n)

C5_BackupHoldsPreMutation ==
  (Did("create_profile") \/ Did("delete_profile")) =>
    /\ (pre.credentials.exists /\ (credentials # pre.credentials \/ last.ret = "True"))
         => backup_creds = pre.credentials
    /\ (pre.config.exists /\ (config # pre.config \/ last.ret = "True"))
         => backup_config = pre.config
    /\ ~pre.credentials.exists => backup_creds = pre.backup_creds
    /\ ~pre.config.exists => backup_config = pre.backup_config

\* a second mutation in the same run replaces the backups the first one left
C5_Witness ==
  /\ nops = 2 /\ last.ret = "True"
  /\ (Did("create_profile") \/ Did("delete_profile"))
  /\ pre.backup_creds.exists /\ pre.backup_creds # File(<<Cmt>>)
  /\ pre.backup_config.exists /\ pre.backup_config # File(<<Cmt>>)
  /\ backup_creds # pre.backup_creds /\ backup_creds = pre.credentials
  /\ backup_config # pre.backup_config /\ backup_config = pre.config

\* the kind the claim gives each outcome of the identity check
ClaimedKind(ext) ==
  CASE ext.exc = "TimeoutExpired" -> "Timeout"
    [] ext.exc = "FileNotFoundError" -> "ToolMissing"
    [] ext.exc # "none" -> "Unknown"
    [] ext.returncode # 0 -> "Invalid"
    [] ext.stdout \in {"not json", "array"} -> "MalformedResponse"
    [] OTHER -> "Success"

FailureKinds == {"Invalid", "Timeout", "Error"}

C7_ResolutionOrder ==
  Did("get_current_profile") =>
    last.val = << IF pre.AWS_PROFILE # Unset THEN pre.AWS_PROFILE
                  ELSE IF last.tool # NotSet THEN last.tool
                  ELSE "default" >>

C9_SwitchUnknownRefused ==
  (Did("switch_profile") /\ NotListed(pre.credentials, last.name)) =>
    /\ last.ret = "False"
    /\ OverrideUnchanged
    /\ FilesUnchanged
    /\ BackupsUnchanged
    /\ \A i \in 1..Len(last.out) : last.out[i][1] # ExportLine

\* an unknown name in shell mode, with a credentials file that lists others
C9_Witness ==
  /\ Did("switch_profile") /\ last.shell /\ last.ret = "False"
  /\ NotListed(pre.credentials, last.name)
  /\ Listed(pre.credentials, "work")

C10_WitnessShell ==
  /\ Did("switch_profile") /\ last.ret = "True" /\ last.shell
  /\ last.name = "dev" /\ pre.AWS_PROFILE = "work" /\ AWS_PROFILE = "work"

CheckFailed(ext) == ext # NoExt /\ get_account_info(ext)[1] \in FailureKinds

\* C11 as claimed: switch_profile(name) for a listed profile whose identity
\* check fails (non-zero exit, timeout, or an error) returns False and leaves
\* the override as it was.
C11_SwitchFailedCheckRefused ==
  (Did("switch_profile") /\ CheckFailed(last.ext)) =>
    /\ last.ret = "False"
    /\ OverrideUnchanged

\* the sections a file has after the call and had not before, and the reverse
Appeared(before, after) == SectionNames(after) \ SectionNames(before)
Vanished(before, after) == SectionNames(before) \ SectionNames(after)

\* C12: create_profile and delete_profile address a profile X as section 'X'
\* of the credentials file and, when X is not 'default', as section
\* 'profile X' of the config file, 'default' being section 'default' in both:
\* the only section a call can add to or (when it returns True) take from the
\* credentials file is 'X', and from the config file 'profile X' ('default'
\* for X = 'default'); a create_profile that returns True leaves both of
\* them in place, and never adds a config section named plain 'X' for a
\* non-default X, nor 'profile default'.
C12_SectionNaming ==
  (Did("create_profile") \/ Did("delete_profile")) =>
    LET X == last.name
        sect == IF X = "default" THEN "default" ELSE Prefixed(X)
        credsBefore == SectionNames(pre.credentials)
        credsAfter == SectionNames(credentials)
        configBefore == SectionNames(pre.config)
        configAfter == SectionNames(config)
    IN /\ credsAfter \ credsBefore \subseteq {X}
       /\ configAfter \ configBefore \subseteq {sect}
       /\ last.ret = "True" =>
            /\ credsBefore \ credsAfter \subseteq {X}
            /\ configBefore \ configAfter \subseteq {sect}
       /\ (Did("create_profile") /\ last.ret = "True") =>
            /\ X \in credsAfter
            /\ sect \in configAfter
       /\ Did("delete_profile") => configAfter \ configBefore = {}

\* a non-default profile created next to others: 'dev' in the credentials
\* file, 'profile dev' and no plain 'dev' in the config file
C12_Witness ==
  /\ Did("create_profile") /\ last.ret = "True" /\ last.name = "dev"
  /\ "dev" \in Appeared(pre.credentials, credentials)
  /\ Appeared(pre.config, config) = {"profile dev"}
  /\ "dev" \notin SectionNames(config)

\* the lines of a file that are not in section sect (its header line and what
\* follows up to the next header), in order; cur is the section being read
RECURSIVE LinesOutside(_, _, _)
LinesOutside(ls, sect, cur) ==
  IF ls = <<>> THEN <<>>
  ELSE LET ln == Head(ls)
           now == IF ln.t = "hdr" THEN ln.n ELSE cur
       IN (IF now = sect THEN <<>> ELSE <<ln>>) \o LinesOutside(Tail(ls), sect, now)

\* C13 as claimed: when a create_profile or delete_profile that returns True
\* has rewritten a registry file, every line outside the target section
\* (comment lines, blank lines and the keys of the other sections, in order)
\* is in the file as it was before the call.
C13_OnlyTargetLinesChange ==
  ((Did("create_profile") \/ Did("delete_profile")) /\ last.ret = "True") =>
    /\ credentials # pre.credentials =>
         LinesOutside(credentials.lines, last.name, "")
           = LinesOutside(pre.credentials.lines, last.name, "")
    /\ config # pre.config =>
         LinesOutside(config.lines, SectionFor(last.name), "")
           = LinesOutside(pre.config.lines, SectionFor(last.name), "")

\* the section headers written in a file, malformed or not
HeaderNames(f) ==
  {f.lines[i].n : i \in {j \in 1..Len(f.lines) : f.lines[j].t = "hdr"}} \ {DEFAULTSECT}

\* C14 as claimed: get_available_profiles returns a list for every
\* credentials file, malformed or not, and the list holds the sections found
\* in the file; switch_profile, create_profile and delete_profile do not end
\* with an exception of the reader.
C14_ReaderNeverRaises ==
  /\ Did("get_available_profiles") =>
       /\ last.ret = "Value"
       /\ \A n \in HeaderNames(pre.credentials) : InSeq(n, last.val)
  /\ (Did("switch_profile") \/ Did("create_profile") \/ Did("delete_profile")) =>
       ~(last.ret = "Raise" /\ get_available_profiles(pre.credentials).raised)

\* the names in a list
Range(seq) == {seq[i] : i \in 1..Len(seq)}

\* C15 as claimed: the list the reader returns is the union over both files:
\* it holds every section of the credentials file, every name that has a
\* section 'profile <name>' in the config file, and 'default' when either
\* file has a section 'default'.
C15_ReaderUnion ==
  (Did("get_available_profiles") /\ last.ret = "Value") =>
    /\ SectionNames(pre.credentials) \subseteq Range(last.val)
    /\ \A n \in Names \ {"default"} :
         Prefixed(n) \in SectionNames(pre.config) => n \in Range(last.val)
    /\ "default" \in SectionNames(pre.credentials) \cup SectionNames(pre.config)
         => "default" \in Range(last.val)

\* C15, amended: the list the reader returns is read from the credentials
\* file alone: it holds the sections of the credentials file, and 'default'
\* as well when the [DEFAULT] section of that file has an aws_access_key_id,
\* in sorted order and nothing else; a profile with a section in the config
\* file only is not listed, and with no credentials file the list is empty.
C15_ReaderCredentialsOnly ==
  (Did("get_available_profiles") /\ last.ret = "Value") =>
    /\ Range(last.val) =
         SectionNames(pre.credentials)
           \cup (IF \E kv \in DefaultOptions(pre.credentials) : kv[1] = "aws_access_key_id"
                 THEN {"default"} ELSE {})
    /\ \A i, j \in 1..Len(last.val) : i < j => Rank(last.val[i]) < Rank(last.val[j])
    /\ ~pre.credentials.exists => last.val = <<>>

\* a profile that is in the config file only, next to one the reader lists
C15_Witness ==
  /\ Did("get_available_profiles") /\ last.ret = "Value"
  /\ "profile dev" \in SectionNames(pre.config)
  /\ "dev" \notin Range(last.val)
  /\ "work" \in Range(last.val)

\* the operator interrupted the call at one of its prompts
Interrupted ==
  KeyboardInterrupt \in {last.answer, last.access_key, last.secret_key,
                         last.region, last.output_format}

\* C16 as claimed: a create_profile or delete_profile interrupted at any of
\* its prompts (overwrite, access key, secret key, region, output format,
\* delete confirmation) ends with result False, the interrupt being caught,
\* and has made no backup and written no file.
C16_InterruptCaught ==
  ((Did("create_profile") \/ Did("delete_profile")) /\ Interrupted) =>
    /\ last.ret = "False"
    /\ FilesUnchanged
    /\ BackupsUnchanged

----------------------------------------------------------------------------
(* Two invocations of the tool at the same time, on the same files.  Each *)
(* runs create_profile or delete_profile one file operation at a time.    *)

Procs == {1, 2}

\* a running call: where it is and what it holds in its local variables
Task(op, name) ==
  [op |-> op, name |-> name, pc |-> "check", ret |-> "",
   checked |-> Absent,             \* the credentials file read by get_available_profiles
   seen_creds |-> Absent,          \* the credentials file read before writing it
   seen_config |-> Absent,         \* the config file read before writing it
   creds_config |-> ConfigParser,  \* the parser the credentials file is written from
   config_config |-> ConfigParser]

\* what the operator enters in a create_profile of this section
RaceEntry == Entry(<<"A">>, <<"S">>, <<>>, <<>>)

\* open(path, 'w'): the file is created, or cut to length zero
Opened == File(<<>>)

\* a writer that adds what it writes to what is in the file
Overlay_append(new, old) == File(old \o new)

\* the file after a writer that opened it earlier writes new from its start:
\* what another writer has put there since is overwritten from the start
\* and, where it was longer, its end stays behind, torn at the seam
Overlay(new, old) ==
  IF Len(old) > Len(new)
  THEN File(new \o <<Bad>> \o SubSeq(old, Len(new) + 2, Len(old)))
  ELSE File(new)

\* the parser create_profile writes the credentials file from
CreatedCreds(parsed, n) ==
  LET with_section == IF has_section(parsed, n) THEN parsed ELSE add_section(parsed, n)
  IN set(set(with_section, n, "aws_access_key_id", Strip(RaceEntry.access_key)),
         n, "aws_secret_access_key", Strip(RaceEntry.secret_key))

\* the parser create_profile writes the config file from
CreatedConfig(parsed, n) ==
  LET sect == config_section(n)
      with_section == IF has_section(parsed, sect) THEN parsed
                      ELSE add_section(parsed, sect)
  IN set(set(with_section, sect, "region", OrDefault(RaceEntry.region, DefaultRegion)),
         sect, "output", OrDefault(RaceEntry.output_format, DefaultOutput))

\* a parse that uses what was read when the call began
Parsed_stale(f, checked) == IF checked.exists THEN read(checked) ELSE ConfigParser

\* the file is read where the code reads it: just before the write
Parsed(f, checked) == IF f.exists THEN read(f) ELSE ConfigParser

Goto(p, pc) == [proc EXCEPT ![p].pc = pc]
Ends(p, ret) == [proc EXCEPT ![p].pc = "done", ![p].ret = ret]

\* what a step of a running invocation does not touch
RaceFrame ==
  UNCHANGED <<AWS_PROFILE, fault, last, pre, nops, SHELL, shell_config, exit_code,
              AWS_SHARED_CREDENTIALS_FILE, temp_creds, session>>

\* profiles = self.get_available_profiles(), and the checks on the name
RaceCheck(p) ==
  LET t == proc[p]
      avail == get_available_profiles(credentials)
  IN /\ t.pc = "check"
     /\ proc' = IF t.op = "delete" /\ IsProtected(t.name) THEN Ends(p, "False")
                ELSE IF avail.raised THEN Ends(p, "Raise")
                ELSE IF t.op = "delete" /\ ~InSeq(t.name, avail.profiles)
                THEN Ends(p, "False")
                ELSE [proc EXCEPT ![p].pc = "enter", ![p].checked = credentials]
     /\ UNCHANGED <<credentials, config, backup_creds, backup_config>>
     /\ RaceFrame

\* the prompts: the credential test of create_profile passes or not, the
\* deletion is confirmed or not
RaceEnter(p) ==
  LET t == proc[p] IN
  /\ t.pc = "enter"
  /\ \/ /\ t.op = "create"
        /\ \E ext \in {ExtOk, ExtRejected} :
             proc' = IF CredentialTest(ext) = "" THEN Goto(p, "backup_creds")
                     ELSE Ends(p, "False")
     \/ /\ t.op = "delete"
        /\ \E answer \in {Yes, <<"n">>} :
             proc' = IF Confirmed(answer) THEN Goto(p, "backup_creds")
                     ELSE Ends(p, "False")
  /\ UNCHANGED <<credentials, config, backup_creds, backup_config>>
  /\ RaceFrame

RaceBackupCreds(p) ==
  /\ proc[p].pc = "backup_creds"
  /\ backup_creds' = IF credentials.exists THEN credentials ELSE backup_creds
  /\ proc' = Goto(p, "backup_config")
  /\ UNCHANGED <<credentials, config, backup_config>>
  /\ RaceFrame

RaceBackupConfig(p) ==
  /\ proc[p].pc = "backup_config"
  /\ backup_config' = IF config.exists THEN config ELSE backup_config
  /\ proc' = Goto(p, "read_creds")
  /\ UNCHANGED <<credentials, config, backup_creds>>
  /\ RaceFrame

\* creds_config.read(self.credentials_path) and the change made in memory
RaceReadCreds(p) ==
  LET t == proc[p]
      parsed == Parsed(credentials, t.checked)
  IN /\ t.pc = "read_creds"
     /\ proc' =
          IF parsed.err THEN Ends(p, "False")
          ELSE IF t.op = "delete" /\ ~has_section(parsed, t.name)
          THEN Goto(p, "read_config")
          ELSE [proc EXCEPT ![p].pc = "open_creds",
                            ![p].seen_creds = credentials,
                            ![p].creds_config =
                               IF t.op = "create" THEN CreatedCreds(parsed, t.name)
                               ELSE remove_section(parsed, t.name)]
     /\ UNCHANGED <<credentials, config, backup_creds, backup_config>>
     /\ RaceFrame

\* with open(self.credentials_path, 'w') as f
RaceOpenCreds(p) ==
  /\ proc[p].pc = "open_creds"
  /\ credentials' = Opened
  /\ proc' = Goto(p, "write_creds")
  /\ UNCHANGED <<config, backup_creds, backup_config>>
  /\ RaceFrame

\* creds_config.write(f), and the file is closed
RaceWriteCreds(p) ==
  /\ proc[p].pc = "write_creds"
  /\ credentials' = Overlay(write(proc[p].creds_config).lines, credentials.lines)
  /\ proc' = Goto(p, "read_config")
  /\ UNCHANGED <<config, backup_creds, backup_config>>
  /\ RaceFrame

\* config_config.read(self.config_path) and the change made in memory
RaceReadConfig(p) ==
  LET t == proc[p]
      parsed == IF config.exists THEN read(config) ELSE ConfigParser
  IN /\ t.pc = "read_config"
     /\ proc' =
          IF parsed.err THEN Ends(p, "False")
          ELSE IF t.op = "delete" /\ ~has_section(parsed, config_section(t.name))
          THEN Ends(p, "True")
          ELSE [proc EXCEPT ![p].pc = "open_config",
                            ![p].seen_config = config,
                            ![p].config_config =
                               IF t.op = "create" THEN CreatedConfig(parsed, t.name)
                               ELSE remove_section(parsed, config_section(t.name))]
     /\ UNCHANGED <<credentials, config, backup_creds, backup_config>>
     /\ RaceFrame

\* with open(self.config_path, 'w') as f
RaceOpenConfig(p) ==
  /\ proc[p].pc = "open_config"
  /\ config' = Opened
  /\ proc' = Goto(p, "write_config")
  /\ UNCHANGED <<credentials, backup_creds, backup_config>>
  /\ RaceFrame

\* config_config.write(f), the file is closed, and the call returns True
RaceWriteConfig(p) ==
  /\ proc[p].pc = "write_config"
  /\ config' = Overlay(write(proc[p].config_config).lines, config.lines)
  /\ proc' = Ends(p, "True")
  /\ UNCHANGED <<credentials, backup_creds, backup_config>>
  /\ RaceFrame

\* the next step of invocation p
RaceStep(p) ==
  \/ RaceCheck(p)
  \/ RaceEnter(p)
  \/ RaceBackupCreds(p)
  \/ RaceBackupConfig(p)
  \/ RaceReadCreds(p)
  \/ RaceOpenCreds(p)
  \/ RaceWriteCreds(p)
  \/ RaceReadConfig(p)
  \/ RaceOpenConfig(p)
  \/ RaceWriteConfig(p)

\* the homes two invocations start in, and what each is asked to do
RaceStart(w, first, second) == [world |-> w, tasks |-> <<first, second>>]

RaceStarts ==
  { RaceStart(World(Absent, Absent, Absent, Absent),
              Task("create", "dev"), Task("create", "work")),
    RaceStart(World(File(CredsOf("default")), File(ConfOf("default")), Absent, Absent),
              Task("create", "dev"), Task("create", "work")),
    RaceStart(World(File(CredsOf("default") \o CredsOf("work")),
                    File(ConfOf("default") \o ConfOf("profile work")), Absent, Absent),
              Task("create", "dev"), Task("delete", "work")),
    RaceStart(World(File(<<Cmt>> \o HandCreds("work") \o HandCreds("dev")),
                    File(ConfOf("profile work")), Absent, Absent),
              Task("delete", "work"), Task("delete", "dev")) }

InitRace ==
  /\ \E st \in RaceStarts :
       /\ credentials = st.world.credentials
       /\ config = st.world.config
       /\ backup_creds = st.world.backup_creds
       /\ backup_config = st.world.backup_config
       /\ proc = st.tasks
  /\ AWS_PROFILE = Unset
  /\ fault = NoFault
  /\ last = Call("", "")
  /\ AWS_SHARED_CREDENTIALS_FILE = Unset
  /\ temp_creds = Absent
  /\ pre = Snapshot
  /\ nops = 0
  /\ SHELL = "zsh"
  /\ shell_config = NoShellConfig
  /\ exit_code = <<>>
  /\ session = NoSession

NextRace ==
  \/ \E p \in Procs : RaceCheck(p)
  \/ \E p \in Procs : RaceEnter(p)
  \/ \E p \in Procs : RaceBackupCreds(p)
  \/ \E p \in Procs : RaceBackupConfig(p)
  \/ \E p \in Procs : RaceReadCreds(p)
  \/ \E p \in Procs : RaceOpenCreds(p)
  \/ \E p \in Procs : RaceWriteCreds(p)
  \/ \E p \in Procs : RaceReadConfig(p)
  \/ \E p \in Procs : RaceOpenConfig(p)
  \/ \E p \in Procs : RaceWriteConfig(p)

SpecRace == InitRace /\ [][NextRace]_vars

----------------------------------------------------------------------------
(* main: one command line per process *)

\* the exit status main leaves: sys.exit(1) is called for a failed
\* setup-shell only; the result of every other command is dropped, and an
\* exception that leaves main ends the process with a non-zero status
ExitStatus(command, ret) ==
  IF ret = "Raise" THEN <<1>>
  ELSE IF command = "setup-shell" /\ ret # "True" THEN <<1>>
  ELSE <<0>>

MainSwitch ==
  /\ \E n \in Names, shell_mode \in BOOLEAN : switch_profile(n, shell_mode)
  /\ exit_code' = ExitStatus("-p", last'.ret)
  /\ UNCHANGED <<SHELL, shell_config, session>>

MainCreate ==
  /\ \E n \in Names : create_profile(n)
  /\ exit_code' = ExitStatus("create", last'.ret)
  /\ UNCHANGED <<SHELL, shell_config, session>>

MainDelete ==
  /\ \E n \in Names : delete_profile(n)
  /\ exit_code' = ExitStatus("delete", last'.ret)
  /\ UNCHANGED <<SHELL, shell_config, session>>

MainSetupShell ==
  /\ setup_shell_integration
  /\ exit_code' = ExitStatus("setup-shell", last'.ret)
  /\ UNCHANGED session

\* the process has ended: its environment is gone with it, and the next
\* command line starts from the environment of the shell
NextProcess ==
  /\ last.op # ""
  /\ nops < MaxOps
  /\ last' = Call("", "")
  /\ AWS_PROFILE' = pre.AWS_PROFILE
  /\ pre' = [Snapshot EXCEPT !.AWS_PROFILE = pre.AWS_PROFILE]
  /\ exit_code' = <<>>
  /\ UNCHANGED <<credentials, config, backup_creds, backup_config,
                 fault, nops, SHELL, shell_config, proc,
                 AWS_SHARED_CREDENTIALS_FILE, temp_creds, session>>

\* homes and faults for the command line
MainWorlds ==
  { World(Absent, Absent, Absent, Absent),
    World(File(CredsOf("default") \o CredsOf("work")),
          File(ConfOf("default") \o ConfOf("profile work")), Absent, Absent),
    World(File(CredsOf("work") \o CredsOf("dev") \o CredsOf("work")),
          File(ConfOf("profile work")), Absent, Absent) }

MainFaults ==
  { NoFault,
    [at |-> "write_shell_config", trunc |-> FALSE],
    [at |-> "write_config", trunc |-> FALSE] }

Shells ==
  { <<"fish", NoShellConfig>>,
    <<"zsh", NoShellConfig>>,
    <<"zsh", ShellConfig(TRUE, TRUE, FALSE)>>,
    <<"bash", ShellConfig(TRUE, FALSE, FALSE)>> }

InitMain ==
  /\ \E w \in MainWorlds :
       /\ credentials = w.credentials
       /\ config = w.config
       /\ backup_creds = w.backup_creds
       /\ backup_config = w.backup_config
  /\ AWS_PROFILE \in {Unset, "work"}
  /\ fault \in MainFaults
  /\ \E sh \in Shells : SHELL = sh[1] /\ shell_config = sh[2]
  /\ last = Call("", "")
  /\ AWS_SHARED_CREDENTIALS_FILE = Unset
  /\ temp_creds = Absent
  /\ pre = Snapshot
  /\ nops = 0
  /\ exit_code = <<>>
  /\ session = NoSession
  /\ proc = <<>>

NextMain ==
  \/ Idle /\ MainSwitch
  \/ Idle /\ MainCreate
  \/ Idle /\ MainDelete
  \/ Idle /\ MainSetupShell
  \/ NextProcess

SpecMain == InitMain /\ [][NextMain]_vars

\* the command the process ran did what was asked of it
Succeeded == last.ret = "True"

\* C17 as claimed: the exit status of the process is 0 exactly when the
\* command succeeded: a switch to an unknown profile, a create_profile or a
\* delete_profile that returns False, and a failed setup-shell each end the
\* process with a non-zero status.
C17_ExitCodeTellsSuccess ==
  exit_code # <<>> => (exit_code = <<0>> <=> Succeeded)

\* both invocations have returned
RaceDone == proc # <<>> /\ \A p \in Procs : proc[p].pc = "done"

\* two create_profile calls for different names, both of which returned True
BothCreated ==
  /\ RaceDone
  /\ \A p \in Procs : proc[p].op = "create" /\ proc[p].ret = "True"
  /\ proc[1].name # proc[2].name

\* C18: two create_profile calls for different names running at the same
\* time on the same files are not kept apart, and the last writer wins: when
\* both have returned True, a well-formed credentials file holds exactly the
\* sections one of the two had read plus that one's own profile, and a
\* well-formed config file likewise; the profile of the other is in the file
\* only if it had been read (the witness is the run in which it is lost).
C18_LastWriterWins ==
  BothCreated =>
    /\ Parses(credentials) =>
         \E w \in Procs :
           SectionNames(credentials)
             = SectionNames(proc[w].seen_creds) \cup {proc[w].name}
    /\ Parses(config) =>
         \E w \in Procs :
           SectionNames(config)
             = SectionNames(proc[w].seen_config) \cup {config_section(proc[w].name)}

\* both report success and the credentials file, well-formed, holds only
\* the profile of the one that wrote last
C18_Witness ==
  /\ BothCreated
  /\ Parses(credentials)
  /\ "work" \in SectionNames(credentials)
  /\ "dev" \notin SectionNames(credentials)

\* the sections invocation p is to keep when it writes a file it has read
KeptBy(p, seen, target) ==
  SectionNames(seen) \ (IF proc[p].op = "delete" THEN {target} ELSE {})

\* C19: in create_profile and delete_profile a registry file is written only
\* by an invocation that has read it in its previous steps (after the check
\* of the name, the prompts, the credential test and the backups), the read
\* takes the file as it is at that moment, and the write puts back every
\* section the read found, the target of a delete excepted: a section another
\* process added at any time before the read is in the file written.
C19_ReadBeforeWrite ==
  [][proc # <<>> =>
       \A p \in Procs :
         /\ (proc[p].pc = "read_creds" /\ proc'[p].pc = "open_creds")
              => proc'[p].seen_creds = credentials
         /\ (proc[p].pc = "read_config" /\ proc'[p].pc = "open_config")
              => proc'[p].seen_config = config
         /\ (proc[p].pc # proc'[p].pc /\ credentials' # credentials)
              => /\ proc[p].pc \in {"open_creds", "write_creds"}
                 /\ proc[p].pc = "write_creds" =>
                      KeptBy(p, proc[p].seen_creds, proc[p].name)
                        \subseteq SectionNames(credentials')
         /\ (proc[p].pc # proc'[p].pc /\ config' # config)
              => /\ proc[p].pc \in {"open_config", "write_config"}
                 /\ proc[p].pc = "write_config" =>
                      KeptBy(p, proc[p].seen_config, config_section(proc[p].name))
                        \subseteq SectionNames(config')
    ]_vars

\* the first invocation began when 'work' was not in the file, read the file
\* after the second had added it, and has written the file with both
C19_Witness ==
  /\ proc # <<>>
  /\ proc[1].op = "create" /\ proc[1].pc = "read_config"
  /\ "work" \notin SectionNames(proc[1].checked)
  /\ "work" \in SectionNames(proc[1].seen_creds)
  /\ {"dev", "work"} \subseteq SectionNames(credentials)

----------------------------------------------------------------------------
(* extract_username, applied to principal strings *)

\* '/' in arn
Contains(s, c) == \E i \in 1..Len(s) : s[i] = c

\* s.split(c): the fields between the occurrences of c
RECURSIVE split(_, _)
split(s, c) ==
  IF ~Contains(s, c) THEN <<s>>
  ELSE LET i == CHOOSE i \in 1..Len(s) :
                  s[i] = c /\ \A j \in 1..(i - 1) : s[j] # c
       IN <<SubSeq(s, 1, i - 1)>> \o split(SubSeq(s, i + 1, Len(s)), c)

\* the text after the first separator
extract_username_first(arn) ==
  IF Contains(arn, "/") THEN split(arn, "/")[2]
  ELSE IF Contains(arn, ":") THEN split(arn, ":")[2]
  ELSE arn

\* AWSProfileManager.extract_username: arn.split(sep)[-1]
extract_username(arn) ==
  IF Contains(arn, "/") THEN split(arn, "/")[Len(split(arn, "/"))]
  ELSE IF Contains(arn, ":") THEN split(arn, ":")[Len(split(arn, ":"))]
  ELSE arn

\* the characters principal strings are made of; a word stands for a run of
\* characters that holds no separator
Chars == {"a", "b", "/", ":"}

RECURSIVE Texts(_)
Texts(n) ==
  IF n = 0 THEN {<<>>}
  ELSE LET shorter == Texts(n - 1)
       IN shorter \cup {Append(t, c) : t \in {u \in shorter : Len(u) = n - 1}, c \in Chars}

UserArn ==
  <<"arn", ":", "aws", ":", "iam", ":", ":", "123456789012", ":", "user", "/", "testuser">>
AssumedRoleArn ==
  <<"arn", ":", "aws", ":", "sts", ":", ":", "123456789012", ":", "assumed-role",
    "/", "role-name", "/", "session-name">>
Simple == <<"simple">>

Arns == Texts(MaxLen) \cup {UserArn, AssumedRoleArn, Simple}

\* last.val is <<arn>> while the call is to be made, <<arn, username>> after
InitText ==
  /\ credentials = Absent /\ config = Absent
  /\ backup_creds = Absent /\ backup_config = Absent
  /\ AWS_PROFILE = Unset
  /\ fault = NoFault
  /\ \E arn \in Arns : last = [Call("", "") EXCEPT !.val = <<arn>>]
  /\ AWS_SHARED_CREDENTIALS_FILE = Unset
  /\ temp_creds = Absent
  /\ pre = Snapshot
  /\ nops = 0
  /\ SHELL = "zsh"
  /\ shell_config = NoShellConfig
  /\ exit_code = <<>>
  /\ session = NoSession
  /\ proc = <<>>

ExtractUsername ==
  /\ last.op = ""
  /\ last' = [Call("extract_username", "") EXCEPT
                !.ret = "Value",
                !.val = <<last.val[1], extract_username(last.val[1])>>]
  /\ UNCHANGED <<credentials, config, backup_creds, backup_config, AWS_PROFILE,
                 fault, pre, nops, SHELL, shell_config, exit_code, proc,
                 AWS_SHARED_CREDENTIALS_FILE, temp_creds, session>>

NextText == ExtractUsername

SpecText == InitText /\ [][NextText]_vars

\* text is what follows the last sep in arn, and arn holds a sep
AfterLast(text, arn, sep) ==
  LET at == Len(arn) - Len(text) IN
  /\ at >= 1
  /\ arn[at] = sep
  /\ text = SubSeq(arn, at + 1, Len(arn))
  /\ \A i \in 1..Len(text) : text[i] # sep

\* C20: extract_username returns the text after the last '/' of the
\* principal when it holds a '/', otherwise the text after its last ':' when
\* it holds a ':', otherwise the principal itself; the user ARN gives
\* 'testuser', the assumed-role ARN its session name, 'simple' itself.
C20_ExtractUsername ==
  Did("extract_username") =>
    LET arn == last.val[1]
        username == last.val[2]
    IN /\ (\E i \in 1..Len(arn) : arn[i] = "/") => AfterLast(username, arn, "/")
       /\ ((\A i \in 1..Len(arn) : arn[i] # "/") /\ (\E i \in 1..Len(arn) : arn[i] = ":"))
            => AfterLast(username, arn, ":")
       /\ (\A i \in 1..Len(arn) : arn[i] \notin {"/", ":"}) => username = arn
       /\ arn = UserArn => username = <<"testuser">>
       /\ arn = AssumedRoleArn => username = <<"session-name">>
       /\ arn = Simple => username = <<"simple">>

\* the assumed-role ARN, with two '/' and colons before them
C20_Witness ==
  /\ Did("extract_username")
  /\ last.val = <<AssumedRoleArn, <<"session-name">>>>

----------------------------------------------------------------------------
(* Refusals of delete_profile and create_profile *)

\* C26: delete_profile(n) for a name n the reader does not list returns False
\* with 'Profile not found', without reading a confirmation and without
\* changing a registry file or a backup; and after a delete_profile(n) that
\* returned True the reader no longer lists n, so that a second
\* delete_profile(n) is such a refusal.
C26_DeleteUnknownRefused ==
  /\ (Did("delete_profile") /\ NotListed(pre.credentials, last.name)) =>
       /\ last.ret = "False"
       /\ last.answer = NoInput
       /\ FilesUnchanged
       /\ BackupsUnchanged
       /\ OverrideUnchanged
  /\ (Did("delete_profile") /\ last.name # "default"
        /\ NotListed(pre.credentials, last.name)) =>
       \E i \in 1..Len(last.out) : last.out[i] = <<"Profile not found", last.name>>
  /\ (Did("delete_profile") /\ last.ret = "True") => NotListed(credentials, last.name)

\* the second of two deletions of one profile: the backup taken by the first
\* still holds the section, the credentials file does not, and the call is refused
C26_Witness ==
  /\ Did("delete_profile") /\ nops = 2 /\ last.ret = "False"
  /\ last.name \in SectionNames(backup_creds)
  /\ last.name \in SectionNames(pre.backup_creds)
  /\ NotListed(pre.credentials, last.name)
  /\ pre.credentials.exists

\* C27: a create_profile call that ends before the write phase returns False
\* and leaves both registry files and both backups as they were: an empty
\* profile name, an existing profile whose overwrite is not confirmed with
\* 'y' or 'yes', an empty access key, an empty secret key, and a credential
\* test that exits non-zero, times out or returns unparsable output.
C27_CreateRefusedBeforeWrite ==
  (/\ Did("create_profile")
   /\ \/ last.name = ""
      \/ last.answer # NoInput /\ IsText(last.answer) /\ ~OverwriteConfirmed(last.answer)
      \/ IsText(last.access_key) /\ Strip(last.access_key) = <<>>
      \/ IsText(last.secret_key) /\ Strip(last.secret_key) = <<>>
      \/ /\ last.ext # NoExt
         /\ \/ last.ext.exc = "TimeoutExpired"
            \/ last.ext.exc = "none" /\ last.ext.returncode # 0
            \/ last.ext.exc = "none" /\ JSONDecodeError(last.ext.stdout))
  => /\ last.ret = "False"
     /\ FilesUnchanged
     /\ BackupsUnchanged

\* a credential test that timed out for a profile being overwritten, with
\* registry files in place that a write phase would have backed up
C27_Witness ==
  /\ Did("create_profile") /\ last.ret = "False"
  /\ last.ext = ExtTimeout
  /\ OverwriteConfirmed(last.answer)
  /\ pre.credentials.exists /\ pre.config.exists
  /\ ~pre.backup_creds.exists

----------------------------------------------------------------------------
(* One process whose override names a profile of the registry, or none *)

InitSession ==
  /\ Init
  /\ AWS_PROFILE = Unset \/ Listed(credentials, AWS_PROFILE)

SpecSession == InitSession /\ [][Next]_vars

\* C29 as claimed: in a process that starts with the override unset or
\* naming a listed profile, after any sequence of switch_profile,
\* create_profile and delete_profile calls get_current_profile() is 'default'
\* or a name the reader lists at that moment.
C29_CurrentNeverDangles ==
  LET current == get_current_profile(AWS_PROFILE)
  IN current = "default" \/ Listed(credentials, current)

----------------------------------------------------------------------------
(* create_profile and the environment of its credential test *)

\* values of AWS_SHARED_CREDENTIALS_FILE a process can start with
SharedCredentialsFiles == {Unset, "", "/home/u/.aws/alt"}

CreateFaults ==
  { NoFault,
    [at |-> "unlink_temp", trunc |-> FALSE],
    [at |-> "write_creds", trunc |-> FALSE] }

CreateWorlds ==
  { World(Absent, Absent, Absent, Absent),
    World(File(CredsOf("default") \o CredsOf("work")),
          File(ConfOf("default") \o ConfOf("profile work")), Absent, Absent) }

InitCreate ==
  /\ \E w \in CreateWorlds :
       /\ credentials = w.credentials
       /\ config = w.config
       /\ backup_creds = w.backup_creds
       /\ backup_config = w.backup_config
  /\ AWS_PROFILE = Unset
  /\ fault \in CreateFaults
  /\ last = Call("", "")
  /\ AWS_SHARED_CREDENTIALS_FILE \in SharedCredentialsFiles
  /\ temp_creds = Absent
  /\ pre = Snapshot
  /\ nops = 0
  /\ SHELL = "zsh"
  /\ shell_config = NoShellConfig
  /\ exit_code = <<>>
  /\ proc = <<>>
  /\ session = NoSession

NextCreate ==
  \/ Idle /\ CreateProfile /\ InProcess
  \/ Return

SpecCreate == InitCreate /\ [][NextCreate]_vars

\* C30 as claimed: when create_profile returns after having reached the
\* credential test, whatever the result, the temporary credentials file no
\* longer exists and AWS_SHARED_CREDENTIALS_FILE has the value, or the
\* absence, it had before the call.
C30_TestLeavesNoTrace ==
  (Did("create_profile") /\ last.ext # NoExt /\ last.ret \in {"True", "False"}) =>
    /\ ~temp_creds.exists
    /\ AWS_SHARED_CREDENTIALS_FILE = pre.AWS_SHARED_CREDENTIALS_FILE

----------------------------------------------------------------------------
(* The presentation driver: list_profiles and interactive_mode *)

\* the names a registry of the driver's runs can hold
DriverNames == Names \cup {"personal"}

\* what `aws sts get-caller-identity` answers for each profile during one listing
Identities ==
  { [n \in DriverNames |-> ExtOk],
    [n \in DriverNames |-> IF n = "work" THEN ExtRejected ELSE ExtOk],
    [n \in DriverNames |-> IF n = "default" THEN ExtTimeout ELSE ExtMissing] }

\* a listing that leaves out the profiles whose check did not return an account
Rows_valid_only(profiles, sts) ==
  LET valid == SelectSeq(profiles,
                 LAMBDA n : get_account_info(sts[n])[1] \notin {"Invalid", "Timeout", "Error"})
  IN [i \in 1..Len(valid) |-> <<valid[i], get_account_info(sts[valid[i]])[1], sts[valid[i]]>>]

\* the rows of a listing: each profile with the account get_account_info
\* returned for it, and the outcome of the check behind it
Rows(profiles, sts) ==
  [i \in 1..Len(profiles) |->
     <<profiles[i], get_account_info(sts[profiles[i]])[1], sts[profiles[i]]>>]

\* the rows of a listing that shows names only
NameRows(profiles) == [i \in 1..Len(profiles) |-> <<profiles[i], "", NoExt>>]

list_profiles(names_only) ==
  LET call == [Call("list_profiles", "") EXCEPT !.names_only = names_only]
      avail == get_available_profiles(credentials)
      s0 == [Frame EXCEPT !.out = avail.out]
  IN IF avail.raised THEN Finish(Frame, "Raise", call)
     ELSE IF avail.profiles = <<>>
     THEN Finish(Say(Say(s0, "No AWS profiles found", ""),
                     "Create one with: aws configure --profile <name>", ""),
                 "None", call)
     ELSE IF names_only
     THEN Finish(s0, "None", [call EXCEPT !.shown = NameRows(avail.profiles)])
     ELSE \E sts \in Identities :
            Finish(Say(s0, "Available profiles", ""), "None",
                   [call EXCEPT !.shown = Rows(avail.profiles, sts),
                                !.calls = avail.profiles])

ListProfiles == \E names_only \in BOOLEAN : list_profiles(names_only)

\* int(text) for a stripped text: an optional sign and decimal digits, or ValueError
Digits == <<"0", "1", "2", "3", "4", "5", "6", "7", "8", "9">>

IsDigit(c) == \E d \in 1..10 : Digits[d] = c

RECURSIVE Decimal(_)
Decimal(s) ==
  IF s = <<>> THEN 0
  ELSE 10 * Decimal(SubSeq(s, 1, Len(s) - 1))
       + (CHOOSE d \in 0..9 : Digits[d + 1] = s[Len(s)])

\* an int() that reads every text that is no number as 1
int_lenient(text) ==
  IF text = <<>> \/ \E i \in 1..Len(text) : ~IsDigit(text[i])
  THEN [ValueError |-> FALSE, n |-> 1]
  ELSE [ValueError |-> FALSE, n |-> Decimal(text)]

int(text) ==
  LET signed == text # <<>> /\ Head(text) \in {"-", "+"}
      body == IF signed THEN Tail(text) ELSE text
  IN IF body = <<>> \/ \E i \in 1..Len(body) : ~IsDigit(body[i])
     THEN [ValueError |-> TRUE, n |-> 0]
     ELSE [ValueError |-> FALSE,
           n |-> IF signed /\ Head(text) = "-" THEN 0 - Decimal(body) ELSE Decimal(body)]

\* a continue question that ends the session on 'n' only
Declined_n_only(answer) == Lower(Strip(answer)) = <<"n">>

\* the answer to "Continue managing profiles? (y/n)": .strip().lower() in ['n', 'no']
Declined(answer) == Lower(Strip(answer)) \in {<<"n">>, <<"n", "o">>}

\* one pass of the loop up to the prompt: the current profile is checked, then
\* each profile of the list, and the menu is shown
Menu(base, profiles, env) ==
  LET current == get_current_profile(env) IN
  [base EXCEPT !.pc = "menu",
               !.profiles = profiles,
               !.current = <<current, get_account_info(base.sts[current])[1]>>,
               !.shown = Rows(profiles, base.sts),
               !.calls = <<current>> \o profiles]

\* the loop is left: 'Goodbye!' or a break
Left(base, said) == [base EXCEPT !.pc = "done", !.said = said]

\* an exception leaves interactive_mode
Raised(base) == [base EXCEPT !.pc = "raised"]

\* a step of the session that calls no method of the manager
Quiet ==
  UNCHANGED <<credentials, config, backup_creds, backup_config, AWS_PROFILE,
              fault, last, pre, nops, SHELL, shell_config, exit_code, proc,
              AWS_SHARED_CREDENTIALS_FILE, temp_creds>>

\* the rest of the process around a method called from the menu
Around == UNCHANGED <<SHELL, shell_config, exit_code>>

\* interactive_mode up to its first prompt
InteractiveMode ==
  /\ session.pc = "none"
  /\ \E sts \in Identities :
       LET avail == get_available_profiles(credentials)
           base == [NoSession EXCEPT !.sts = sts]
       IN session' = IF avail.raised THEN Raised(NoSession)
                     ELSE IF avail.profiles = <<>> THEN Left(NoSession, "")
                     ELSE Menu(base, avail.profiles, AWS_PROFILE)
  /\ Quiet

\* a profile name typed at "Enter new profile name: ", as one token
NameInputs == {<<>>, <<"dev">>, <<" ">>, KeyboardInterrupt}

\* option 'c'
MenuCreate(base) ==
  \E typed \in NameInputs :
    LET asked == [base EXCEPT !.sub = typed]
        profile_name == IF Strip(typed) = <<>> THEN "" ELSE Strip(typed)[1]
    IN IF ~IsText(typed) THEN session' = Left(asked, "Goodbye") /\ Quiet
       ELSE IF profile_name = ""
       THEN /\ session' = Menu([asked EXCEPT !.said = "Profile name cannot be empty"],
                               session.profiles, AWS_PROFILE)
            /\ Quiet
       ELSE /\ create_profile(profile_name)
            /\ Around
            /\ session' =
                 CASE last'.ret = "True" ->
                        LET again == get_available_profiles(credentials') IN
                        IF again.raised THEN Raised(asked)
                        ELSE Menu(asked, again.profiles, AWS_PROFILE')
                   [] last'.ret = "False" ->
                        Menu([asked EXCEPT !.said = "Profile creation failed"],
                             session.profiles, AWS_PROFILE')
                   [] OTHER ->
                        IF get_available_profiles(credentials).raised THEN Raised(asked)
                        ELSE Left(asked, "Goodbye")

DeleteInputs == {<<"c">>, <<"1">>, <<" ", "2">>, <<"9">>, <<"x">>, <<>>, EOFError}

\* option 'd'
MenuDelete(base) ==
  \E del_choice \in DeleteInputs :
    LET asked == [base EXCEPT !.sub = del_choice]
        del_num == int(Lower(Strip(del_choice)))
    IN IF ~IsText(del_choice) THEN session' = Left(asked, "Goodbye") /\ Quiet
       ELSE IF Lower(Strip(del_choice)) = <<"c">>
       THEN session' = Menu(asked, session.profiles, AWS_PROFILE) /\ Quiet
       ELSE IF del_num.ValueError
       THEN /\ session' = Menu([asked EXCEPT !.said = "Please enter a valid number"],
                               session.profiles, AWS_PROFILE)
            /\ Quiet
       ELSE IF ~(1 <= del_num.n /\ del_num.n <= Len(session.profiles))
       THEN /\ session' = Menu([asked EXCEPT !.said = "Please enter a number between"],
                               session.profiles, AWS_PROFILE)
            /\ Quiet
       ELSE /\ delete_profile(session.profiles[del_num.n])
            /\ Around
            /\ session' =
                 IF last'.ret \in {"True", "False"}
                 THEN LET again == get_available_profiles(credentials') IN
                      IF again.raised THEN Raised(asked)
                      ELSE Menu(asked, again.profiles, AWS_PROFILE')
                 ELSE IF get_available_profiles(credentials).raised THEN Raised(asked)
                 ELSE Left(asked, "Goodbye")

\* a number, or anything else, at "Select option: "
MenuSwitch(base, choice) ==
  LET profile_num == int(choice) IN
  IF profile_num.ValueError
  THEN /\ session' = Menu([base EXCEPT !.said = "Please enter a valid number"],
                          session.profiles, AWS_PROFILE)
       /\ Quiet
  ELSE IF ~(1 <= profile_num.n /\ profile_num.n <= Len(session.profiles))
  THEN /\ session' = Menu([base EXCEPT !.said = "Please enter a number between"],
                          session.profiles, AWS_PROFILE)
       /\ Quiet
  ELSE /\ switch_profile(session.profiles[profile_num.n], FALSE)
       /\ Around
       /\ session' =
            CASE last'.ret = "True" -> [base EXCEPT !.pc = "continue"]
              [] last'.ret = "False" -> Menu(base, session.profiles, AWS_PROFILE')
              [] OTHER -> Raised(base)

MenuInputs ==
  { <<"q">>, <<"r">>, <<"c">>, <<"d">>, <<" ", "1">>, <<"2">>, <<"9">>, <<"-", "1">>,
    <<"x">>, <<>>, KeyboardInterrupt, EOFError }

\* the operator answers "Select option: "
MenuChoice ==
  /\ session.pc = "menu"
  /\ session.prompts < MaxRounds
  /\ \E typed \in MenuInputs :
       LET base == [session EXCEPT !.choice = typed, !.sub = NoInput, !.said = "",
                                   !.prompts = @ + 1]
           choice == Lower(Strip(typed))
       IN IF ~IsText(typed) THEN session' = Left(base, "Goodbye") /\ Quiet
          ELSE IF choice = <<"q">> THEN session' = Left(base, "Goodbye") /\ Quiet
          ELSE IF choice = <<"r">>
          THEN /\ session' = Menu([base EXCEPT !.said = "Refreshing"],
                                  session.profiles, AWS_PROFILE)
               /\ Quiet
          ELSE IF choice = <<"c">> THEN MenuCreate(base)
          ELSE IF choice = <<"d">> THEN MenuDelete(base)
          ELSE MenuSwitch(base, choice)

ContinueInputs == {<<"n">>, <<" ", "N", "O">>, <<"y">>, <<>>, <<"q">>, KeyboardInterrupt}

\* the operator answers "Continue managing profiles? (y/n): "
ContinueChoice ==
  /\ session.pc = "continue"
  /\ \E continue_choice \in ContinueInputs :
       LET base == [session EXCEPT !.sub = continue_choice, !.said = ""]
       IN session' = IF ~IsText(continue_choice) THEN Left(base, "Goodbye")
                     ELSE IF Declined(continue_choice) THEN Left(base, "")
                     ELSE Menu(base, session.profiles, AWS_PROFILE)
  /\ Quiet

\* another program adds a profile to the credentials file while the menu is up
Elsewhere ==
  /\ session.pc = "menu"
  /\ credentials.exists /\ ~read(credentials).err
  /\ "dev" \notin SectionNames(credentials)
  /\ credentials' = File(credentials.lines \o CredsOf("dev"))
  /\ UNCHANGED <<config, backup_creds, backup_config, AWS_PROFILE,
                 fault, last, pre, nops, SHELL, shell_config, exit_code, proc,
                 AWS_SHARED_CREDENTIALS_FILE, temp_creds, session>>

ConfPersonal == ConfOf("default") \o ConfOf("profile work") \o ConfOf("profile personal")

DriverWorlds ==
  { \* an empty home directory
    World(Absent, Absent, Absent, Absent),
    \* sections default, work and personal, in this order in the file
    World(File(CredsOf("default") \o CredsOf("work") \o CredsOf("personal")),
          File(ConfPersonal), Absent, Absent),
    \* hand-edited, work before dev
    World(File(<<Cmt>> \o HandCreds("work") \o HandCreds("dev")),
          File(ConfOf("profile work") \o ConfOf("profile dev")), Absent, Absent),
    \* a duplicate section in the credentials file
    World(File(CredsOf("work") \o CredsOf("dev") \o CredsOf("work")),
          File(ConfOf("profile work")), Absent, Absent) }

InitDriver ==
  /\ \E w \in DriverWorlds :
       /\ credentials = w.credentials
       /\ config = w.config
       /\ backup_creds = w.backup_creds
       /\ backup_config = w.backup_config
  /\ AWS_PROFILE \in {Unset, "work"}
  /\ fault = NoFault
  /\ last = Call("", "")
  /\ AWS_SHARED_CREDENTIALS_FILE = Unset
  /\ temp_creds = Absent
  /\ pre = Snapshot
  /\ nops = 0
  /\ SHELL = "zsh"
  /\ shell_config = NoShellConfig
  /\ exit_code = <<>>
  /\ proc = <<>>
  /\ session = NoSession

\* no session runs and no call is pending
Outside == Idle /\ session.pc = "none"

NextDriver ==
  \/ Outside /\ ListProfiles /\ InProcess
  \/ Outside /\ GetAvailableProfiles /\ InProcess
  \/ Outside /\ InteractiveMode
  \/ MenuChoice
  \/ ContinueChoice
  \/ Elsewhere
  \/ session.pc = "none" /\ Return

SpecDriver == InitDriver /\ [][NextDriver]_vars

\* the profiles of a credentials file: its sections, and 'default' when the
\* [DEFAULT] section holds an access key
Registry(f) ==
  SectionNames(f) \cup
    (IF \E kv \in DefaultOptions(f) : kv[1] = "aws_access_key_id" THEN {"default"} ELSE {})

\* C21: with no credentials file, get_available_profiles returns the empty
\* list without raising and says how to set up a first profile;
\* list_profiles returns without raising, lists no profile and prints 'No AWS
\* profiles found' with the hint to create one; after either call there is
\* still no credentials file, and the config file and the backups are as
\* they were.
C21_NoFileEmptyRegistry ==
  ((Did("get_available_profiles") \/ Did("list_profiles")) /\ ~pre.credentials.exists) =>
    /\ last.ret # "Raise"
    /\ Did("get_available_profiles") => last.ret = "Value" /\ last.val = <<>>
    /\ Did("list_profiles") =>
         /\ last.shown = <<>> /\ last.calls = <<>>
         /\ InSeq(<<"No AWS profiles found", "">>, last.out)
         /\ InSeq(<<"Create one with: aws configure --profile <name>", "">>, last.out)
    /\ InSeq(<<"Run 'aws configure'", "">>, last.out)
    /\ ~credentials.exists
    /\ FilesUnchanged
    /\ BackupsUnchanged

\* list_profiles in an empty home directory
C21_Witness ==
  /\ Did("list_profiles") /\ last.ret = "None"
  /\ ~pre.credentials.exists /\ ~pre.config.exists
  /\ ~credentials.exists /\ ~config.exists

\* C22: get_available_profiles returns the profiles of the credentials file,
\* each once, in ascending order of the names: the list is strictly
\* ascending and its elements are the registry of the file, so the list is a
\* function of the file and position i names the same profile in every call
\* on an unchanged file; the file with sections default, work and personal
\* gives exactly <<default, personal, work>>.
C22_ReaderSortedOnce ==
  (Did("get_available_profiles") /\ last.ret = "Value") =>
    /\ \A i, j \in 1..Len(last.val) : i < j => Rank(last.val[i]) < Rank(last.val[j])
    /\ \A i, j \in 1..Len(last.val) : i # j => last.val[i] # last.val[j]
    /\ Range(last.val) = Registry(pre.credentials)
    /\ last.val = get_available_profiles(credentials).profiles
    /\ HeaderNames(pre.credentials) = {"default", "work", "personal"}
         => last.val = <<"default", "personal", "work">>

\* the second call in a row on the file that holds default, work, personal
C22_Witness ==
  /\ Did("get_available_profiles") /\ nops = 2
  /\ pre.credentials = File(CredsOf("default") \o CredsOf("work") \o CredsOf("personal"))
  /\ pre.config = File(ConfPersonal)
  /\ last.val = <<"default", "personal", "work">>

\* the answer read in this step at "Select option: "
Answered == session.pc = "menu" /\ session'.prompts = session.prompts + 1

\* what the operator asked for, after .strip().lower()
Chosen == Lower(Strip(session'.choice))
SubChosen == Lower(Strip(session'.sub))

\* a text that is not the numeral of a position of the list
NoListNumber(text, profiles) ==
  ~\E i \in 1..Len(profiles) : text \in {<<Digits[i + 1]>>, <<"+", Digits[i + 1]>>}

\* this step read an input that is no valid option
InvalidOption ==
  /\ Answered
  /\ IsText(session'.choice)
  /\ \/ Chosen \notin {<<"q">>, <<"r">>, <<"c">>, <<"d">>}
          /\ NoListNumber(Chosen, session.profiles)
     \/ /\ Chosen = <<"d">>
        /\ IsText(session'.sub) /\ SubChosen # <<"c">>
        /\ NoListNumber(SubChosen, session.profiles)

RegistryUntouched ==
  UNCHANGED <<credentials, config, backup_creds, backup_config, AWS_PROFILE>>

C24_SessionEnds ==
  [][/\ (session.pc = "none" /\ session'.pc # "none"
           /\ ~get_available_profiles(credentials).raised
           /\ get_available_profiles(credentials).profiles = <<>>)
          => session'.pc = "done" /\ session'.prompts = 0 /\ session'.shown = <<>>
     /\ (Answered /\ (~IsText(session'.choice) \/ Chosen = <<"q">>))
          => session'.pc = "done"
     /\ (session.pc = "continue" /\ session'.pc # "continue")
          => /\ last.op = "switch_profile" /\ last.ret = "True"
             /\ IF IsText(session'.sub) /\ SubChosen \notin {<<"n">>, <<"n", "o">>}
                THEN session'.pc = "menu"
                ELSE session'.pc = "done"]_vars

\* the session left by ' NO' at the continue question after a switch
C24_Witness ==
  /\ session.pc = "done"
  /\ session.sub = <<" ", "N", "O">>
  /\ last.op = "switch_profile" /\ last.ret = "True"
  /\ AWS_PROFILE = last.name

\* the names of the rows of a listing
Shown(rows) == [i \in 1..Len(rows) |-> rows[i][1]]

\* C25 as claimed: when the menu is shown again after option r, c or d, the
\* list it shows is the sorted list of the profiles that are in the
\* credentials file at that time.
C25_MenuShowsFile ==
  [][(Answered /\ IsText(session'.choice) /\ Chosen \in {<<"r">>, <<"c">>, <<"d">>}
        /\ session'.pc = "menu")
       => /\ ~get_available_profiles(credentials').raised
          /\ Shown(session'.shown) = get_available_profiles(credentials').profiles]_vars

\* how many times the validator was called for profile n during a listing
Calls(calls, n) == Cardinality({i \in 1..Len(calls) : calls[i] = n})

RowAsValidated(row) ==
  /\ row[2] = get_account_info(row[3])[1]
  /\ (row[3].exc = "none" /\ row[3].returncode # 0) => row[2] = "Invalid"
  /\ row[3].exc = "TimeoutExpired" => row[2] = "Timeout"

====
